---- MODULE Spec2Model ----
(***************************************************************************)
(* EduAI Companion: the AI generation and grading pipeline.                *)
(*                                                                         *)
(* Model replies are sequences of tokens: "{" and "}" are the brace        *)
(* characters, "txt" is a run of prose without braces, and every other     *)
(* token is one well-formed  "key": value  member of a JSON object (the    *)
(* commas between members are implied).  Numbers are points, chosen so     *)
(* that the products the code computes in floating point are exact.        *)
(* Python strings are sequences of atoms (lines, or characters where the   *)
(* code looks inside a string).                                            *)
(***************************************************************************)
EXTENDS Integers, Sequences, FiniteSets, TLC

VARIABLES
    students,      \* ids of the rows of table students
    assignments,   \* table assignments: id -> [max_points, rubric]
    submissions,   \* table submissions: id -> the committed row
    ops,           \* grading operations: started, waiting for the model, ended
    now,           \* the number of times datetime.now() was read: its next value
    last,          \* the grading operation that ended last, and how
    nreq,          \* number of POST requests received so far
    xcall,         \* extractor specification: the call made
    xout,          \* extractor specification: what the call returned or raised
    quizzes,       \* table quizzes: id -> the stored questions
    attempts,      \* table quiz_attempts: id -> the committed row
    qlast,         \* the quiz request answered last, and how
    nquiz          \* number of quiz requests received so far

vars == <<students, assignments, submissions, ops, now, last, nreq, xcall, xout,
          quizzes, attempts, qlast, nquiz>>

(***************************************************************************)
(* Bounds of the model.                                                    *)
(***************************************************************************)
MaxReplyLen == 4
MaxRequests == 3
MaxQuizRequests == 2
MaxLiveRequests == 2

(***************************************************************************)
(* JSON / Python values.                                                   *)
(***************************************************************************)
Null == [ty |-> "null", n |-> 0, s |-> <<>>, l |-> <<>>, a |-> <<>>, d |-> {}]

Num(x) == [ty |-> "num", n |-> x, s |-> <<>>, l |-> <<>>, a |-> <<>>, d |-> {}]

Str(atoms) == [ty |-> "str", n |-> 0, s |-> atoms, l |-> <<>>, a |-> <<>>, d |-> {}]

StrList(items) == [ty |-> "strs", n |-> 0, s |-> <<>>, l |-> items, a |-> <<>>, d |-> {}]

ObjList(entries) == [ty |-> "objs", n |-> 0, s |-> <<>>, l |-> <<>>, a |-> entries, d |-> {}]

Dict(entries) == [ty |-> "dict", n |-> 0, s |-> <<>>, l |-> <<>>, a |-> <<>>, d |-> entries]

\* Python truth value of a value (None, 0, "", [] and {} are false).
Truthy(v) ==
    CASE v.ty = "null" -> FALSE
      [] v.ty = "num"  -> v.n # 0
      [] v.ty = "str"  -> v.s # <<>>
      [] v.ty = "strs" -> v.l # <<>>
      [] v.ty = "objs" -> v.a # <<>>
      [] OTHER         -> v.d # {}

\* for x in v: whether Python can iterate v as a list of objects.
IsList(v) == v.ty \in {"strs", "objs"}

(***************************************************************************)
(* str.find, str.rfind and slicing, on token sequences.                    *)
(***************************************************************************)
Find(s, t) ==
    IF \E i \in 1..Len(s) : s[i] = t
    THEN (CHOOSE i \in 1..Len(s) : s[i] = t /\ \A j \in 1..(i - 1) : s[j] # t) - 1
    ELSE -1

RFind(s, t) ==
    IF \E i \in 1..Len(s) : s[i] = t
    THEN (CHOOSE i \in 1..Len(s) : s[i] = t /\ \A j \in (i + 1)..Len(s) : s[j] # t) - 1
    ELSE -1

\* s[a:b] with Python's rules for negative and out-of-range indices.
PySlice(s, a, b) ==
    LET n == Len(s)
        norm(i) == IF i < 0 THEN (IF i + n < 0 THEN 0 ELSE i + n)
                   ELSE IF i > n THEN n ELSE i
        lo == norm(a)
        hi == norm(b)
    IN  IF lo >= hi THEN <<>> ELSE SubSeq(s, lo + 1, hi)

(***************************************************************************)
(* The objects that occur inside model replies and rubrics.                *)
(***************************************************************************)
\* entries of parsed_answers, as the answer-sheet prompt asks for them
AnsFull == [question_number |-> 1, score |-> 8, max_score |-> 10,
            feedback |-> <<"Correct">>]

AnsNoNum == [score |-> 8, max_score |-> 10, feedback |-> <<"Correct">>]

AnsNoMax == [question_number |-> 1, score |-> 8, feedback |-> <<"Correct">>]

\* entries of an assignment's questions list
QFull == [question_number |-> 1, question_text |-> <<"Define osmosis">>,
          model_answer |-> <<"Diffusion of water">>,
          key_points |-> <<"membrane">>, points |-> 10]

QNoNum == [question_text |-> <<"Define osmosis">>,
           model_answer |-> <<"Diffusion of water">>,
           key_points |-> <<"membrane">>, points |-> 10]

\* entries of a quiz's questions list
QzFull == [question |-> <<"2+2?">>, question_type |-> "short_answer",
           options |-> <<>>, correct_answer |-> <<"4">>,
           explanation |-> <<"Addition">>, points |-> 1]

QzPartial == [question |-> <<"2+2?">>]

\* rubric_scores as an essay reply reports them
EssayRubricScores == Dict({[k |-> "thesis", score |-> 4, feedback |-> <<"Clear">>]})

(***************************************************************************)
(* Tokens.                                                                 *)
(***************************************************************************)
Braces == {"{", "}"}

\* "txt": a short run of prose; "long": a run of 500 or more characters.
Prose == {"txt", "long"}

EssayMembers == {"os80", "osNull", "df", "rs"}

AnswerMembers == {"pct80", "pctNull", "paFull", "paNoNum", "paNoMax", "of", "st"}

LessonMembers == {"title", "matStr", "matList"}

QuizMembers == {"qz", "qzPartial"}

QuestionMembers == {"aq", "aqNoNum", "aqEmpty", "aqStr"}

Members == EssayMembers \cup AnswerMembers \cup LessonMembers
              \cup QuizMembers \cup QuestionMembers

MemberKey(t) ==
    CASE t \in {"os80", "osNull"} -> "overall_score"
      [] t = "df" -> "detailed_feedback"
      [] t = "rs" -> "rubric_scores"
      [] t \in {"pct80", "pctNull"} -> "percentage"
      [] t \in {"paFull", "paNoNum", "paNoMax"} -> "parsed_answers"
      [] t = "of" -> "overall_feedback"
      [] t = "st" -> "strengths"
      [] t = "title" -> "title"
      [] t \in {"matStr", "matList"} -> "materials"
      [] OTHER -> "questions"

MemberVal(t) ==
    CASE t = "os80" -> Num(80)
      [] t = "osNull" -> Null
      [] t = "df" -> Str(<<"Well argued">>)
      [] t = "rs" -> EssayRubricScores
      [] t = "pct80" -> Num(80)
      [] t = "pctNull" -> Null
      [] t = "paFull" -> ObjList(<<AnsFull>>)
      [] t = "paNoNum" -> ObjList(<<AnsNoNum>>)
      [] t = "paNoMax" -> ObjList(<<AnsNoMax>>)
      [] t = "of" -> Str(<<"Nice work">>)
      [] t = "st" -> StrList(<<<<"Clear">>>>)
      [] t = "title" -> Str(<<"Fractions 101">>)
      [] t = "matStr" -> Str(<<"p", "e", "n", ",", " ", ",", " ", "i", "n", "k">>)
      [] t = "matList" -> StrList(<<<<"p", "e", "n">>>>)
      [] t = "qz" -> ObjList(<<QzFull>>)
      [] t = "qzPartial" -> ObjList(<<QzPartial>>)
      [] t = "aq" -> ObjList(<<QFull>>)
      [] t = "aqNoNum" -> ObjList(<<QNoNum>>)
      [] t = "aqStr" -> Str(<<"none">>)
      [] OTHER -> ObjList(<<>>)

(***************************************************************************)
(* json.loads on a slice of the reply.                                     *)
(***************************************************************************)
\* json.loads(json_str) raises JSONDecodeError unless json_str is an object
JsonValid(js) ==
    /\ Len(js) >= 2
    /\ js[1] = "{"
    /\ js[Len(js)] = "}"
    /\ \A i \in 2..(Len(js) - 1) : js[i] \in Members

\* json.loads(json_str): the dict; a repeated key keeps its last value
JsonLoads(js) ==
    LET inner == 2..(Len(js) - 1)
        keys == {MemberKey(js[i]) : i \in inner}
        lastAt(k) == CHOOSE i \in inner :
                      /\ MemberKey(js[i]) = k
                      /\ \A j \in inner : MemberKey(js[j]) = k => j <= i
    IN  [k \in keys |-> MemberVal(js[lastAt(k)])]

\* response[response.find('{'):response.rfind('}') + 1]
JsonSpan(response) == PySlice(response, Find(response, "{"), RFind(response, "}") + 1)

\* dict.get(key, default)
Get(dct, key, default) == IF key \in DOMAIN dct THEN dct[key] ELSE default

\* a returned value, or the exception raised
Ret(v) == [exc |-> "none", val |-> v]

Raise(e) == [exc |-> e, val |-> Null]

(***************************************************************************)
(* OllamaService: the five tasks, from the reply text on.                  *)
(***************************************************************************)
EssayFallbackSeventy(response, max_points) ==
    [score |-> Num((max_points * 7) \div 10),
     feedback |-> Str(response),
     rubric_scores |-> Dict({}),
     strengths |-> StrList(<<>>),
     areas_for_improvement |-> StrList(<<>>)]

EssayFallback(response, max_points) ==
    [score |-> Num((max_points * 75) \div 100),
     feedback |-> Str(response),
     rubric_scores |-> Dict({}),
     strengths |-> StrList(<<>>),
     areas_for_improvement |-> StrList(<<>>)]

EssayParsed(result, max_points) ==
    [score |-> Get(result, "overall_score", Num((max_points * 7) \div 10)),
     feedback |-> Get(result, "detailed_feedback", Str(<<"Good work! Keep improving.">>)),
     rubric_scores |-> Get(result, "rubric_scores", Dict({})),
     strengths |-> Get(result, "strengths", StrList(<<>>)),
     areas_for_improvement |-> Get(result, "areas_for_improvement", StrList(<<>>))]

grade_essay(response, max_points) ==
    LET json_str == JsonSpan(response)
    IN  IF JsonValid(json_str)
        THEN Ret(EssayParsed(JsonLoads(json_str), max_points))
        ELSE Ret(EssayFallback(response, max_points))

\* str.strip() on a sequence of characters
RECURSIVE LStrip(_)
LStrip(cs) == IF cs # <<>> /\ Head(cs) = " " THEN LStrip(Tail(cs)) ELSE cs

RECURSIVE RStrip(_)
RStrip(cs) ==
    IF cs # <<>> /\ cs[Len(cs)] = " " THEN RStrip(SubSeq(cs, 1, Len(cs) - 1)) ELSE cs

Strip(cs) == RStrip(LStrip(cs))

\* str.split(',') on a sequence of characters
RECURSIVE SplitComma(_)
SplitComma(cs) ==
    LET i == Find(cs, ",")
    IN  IF i = -1 THEN <<cs>>
        ELSE <<SubSeq(cs, 1, i)>> \o SplitComma(SubSeq(cs, i + 2, Len(cs)))

\* [m.strip() for m in materials_str.split(',') if m.strip()]
MaterialsList(cs) ==
    LET parts == SplitComma(cs)
        stripped == [i \in 1..Len(parts) |-> Strip(parts[i])]
    IN  SelectSeq(stripped, LAMBDA m : m # <<>>)

LessonFallback(response, topic, learning_objectives) ==
    [title |-> Str(<<"Lesson: " \o topic>>),
     objectives |-> IF Truthy(learning_objectives) THEN learning_objectives
                    ELSE StrList(<<<<"Understand " \o topic>>>>),
     materials |-> StrList(<<<<"Textbook">>, <<"Whiteboard">>, <<"Handouts">>>>),
     activities |-> ObjList(<<[name |-> "Introduction", duration |-> 10,
                               description |-> "Introduce " \o topic,
                               type |-> "warmup"]>>),
     content |-> IF \A i \in 1..Len(response) : response[i] # "long"
                 THEN Str(response) ELSE Str(<<"Lesson plan content">>),
     standards_aligned |-> StrList(<<>>),
     differentiation |-> Str(<<"Provide support as needed">>),
     assessment |-> Str(<<"Exit ticket">>)]

LessonParsed(result) ==
    IF "materials" \in DOMAIN result /\ result["materials"].ty = "str"
    THEN [k \in DOMAIN result |->
             IF k = "materials" THEN StrList(MaterialsList(result[k].s))
             ELSE result[k]]
    ELSE result

generate_lesson_plan(response, topic, learning_objectives) ==
    LET json_start == Find(response, "{")
        json_end == RFind(response, "}") + 1
        json_str == PySlice(response, json_start, json_end)
    IN  IF json_start = -1 \/ json_end = 0 \/ ~JsonValid(json_str)
        THEN Ret(LessonFallback(response, topic, learning_objectives))
        ELSE Ret(LessonParsed(JsonLoads(json_str)))

QuizFallback(topic) ==
    ObjList(<<[question |-> <<"Question about " \o topic>>,
               question_type |-> "short_answer",
               options |-> <<>>,
               correct_answer |-> <<"Sample answer">>,
               explanation |-> <<"Explanation">>,
               points |-> 1]>>)

generate_quiz(response, topic) ==
    LET json_str == JsonSpan(response)
    IN  IF JsonValid(json_str)
        THEN Ret(Get(JsonLoads(json_str), "questions", ObjList(<<>>)))
        ELSE Ret(QuizFallback(topic))

QuestionsFallback(topic, num_questions) ==
    ObjList([i \in 1..num_questions |->
               [question_number |-> i,
                question_text |-> <<"Question " \o ToString(i) \o " about " \o topic>>,
                model_answer |-> <<"Model answer">>,
                key_points |-> <<"Key point">>,
                points |-> 10]])

generate_assignment_questions(response, topic, num_questions) ==
    LET json_str == JsonSpan(response)
    IN  IF JsonValid(json_str)
        THEN Ret(Get(JsonLoads(json_str), "questions", ObjList(<<>>)))
        ELSE Ret(QuestionsFallback(topic, num_questions))

\* The exception that iterating v as a list of dicts and reading `keys` of
\* each entry raises, or "none".
IterRaises(v, keys) ==
    IF v.ty \in {"null", "num"} THEN "TypeError"
    ELSE IF v.ty # "objs" THEN (IF Truthy(v) THEN "TypeError" ELSE "none")
    ELSE IF \E i \in 1..Len(v.a) : ~(keys \subseteq DOMAIN v.a[i]) THEN "KeyError"
    ELSE "none"

\* Building questions_text: q['question_number'], q['question_text'] and
\* q['model_answer'] are read of every question, before the request is sent.
AnswerSheetPromptRaises(questions) ==
    IterRaises(questions, {"question_number", "question_text", "model_answer"})

AnswerSheetFallbackZero(max_points) ==
    [parsed_answers |-> ObjList(<<>>),
     total_score |-> Num(0),
     percentage |-> Num(0),
     overall_feedback |-> Str(<<"Answer sheet graded. Good effort overall.">>),
     strengths |-> StrList(<<<<"Attempted all questions">>>>),
     areas_for_improvement |-> StrList(<<<<"Provide more detailed answers">>>>),
     rubric_scores |-> Dict({})]

AnswerSheetFallback(max_points) ==
    [parsed_answers |-> ObjList(<<>>),
     total_score |-> Num((max_points * 75) \div 100),
     percentage |-> Num(75),
     overall_feedback |-> Str(<<"Answer sheet graded. Good effort overall.">>),
     strengths |-> StrList(<<<<"Attempted all questions">>>>),
     areas_for_improvement |-> StrList(<<<<"Provide more detailed answers">>>>),
     rubric_scores |-> Dict({})]

\* {f"Question {ans['question_number']}": {...} for ans in parsed_answers}
QuestionScores(answers) ==
    LET key(i) == "Question " \o ToString(answers[i].question_number)
        kept == {i \in 1..Len(answers) :
                    \A j \in 1..Len(answers) : key(j) = key(i) => j <= i}
    IN  Dict({[k |-> key(i),
               score |-> Get(answers[i], "score", 0),
               feedback |-> Get(answers[i], "feedback", <<>>)] : i \in kept})

AnswerSheetParsed(result) ==
    LET parsed_answers == Get(result, "parsed_answers", ObjList(<<>>))
        exc == IterRaises(parsed_answers, {"question_number"})
    IN  IF exc # "none" THEN Raise(exc)
        ELSE Ret([parsed_answers |-> parsed_answers,
                  total_score |-> Get(result, "total_score", Num(0)),
                  percentage |-> Get(result, "percentage", Num(0)),
                  overall_feedback |-> Get(result, "overall_feedback", Str(<<>>)),
                  strengths |-> Get(result, "strengths", StrList(<<>>)),
                  areas_for_improvement |->
                      Get(result, "areas_for_improvement", StrList(<<>>)),
                  rubric_scores |-> QuestionScores(parsed_answers.a)])

\* parse_and_grade_answer_sheet once the reply is in
AnswerSheetResult(response, max_points) ==
    LET json_str == JsonSpan(response)
    IN  IF JsonValid(json_str)
        THEN AnswerSheetParsed(JsonLoads(json_str))
        ELSE Ret(AnswerSheetFallback(max_points))

parse_and_grade_answer_sheet(response, questions, max_points) ==
    IF AnswerSheetPromptRaises(questions) # "none"
    THEN Raise(AnswerSheetPromptRaises(questions))
    ELSE AnswerSheetResult(response, max_points)

(***************************************************************************)
(* The extractor specification: one call of one task on one reply.         *)
(***************************************************************************)
NumQuestions == 5

XTasks ==
    {"grade_essay", "parse_and_grade_answer_sheet", "generate_lesson_plan",
     "generate_quiz", "generate_assignment_questions"}

\* the tokens the replies to each task are made of
XAlphabet(task) ==
    CASE task = "grade_essay" -> Braces \cup {"txt"} \cup EssayMembers
      [] task = "parse_and_grade_answer_sheet" ->
           Braces \cup {"txt", "pct80", "paFull", "paNoNum", "of"}
      [] task = "generate_lesson_plan" ->
           Braces \cup {"txt", "long", "title", "matStr"}
      [] task = "generate_quiz" -> Braces \cup {"txt"} \cup QuizMembers
      [] OTHER -> Braces \cup {"txt"} \cup QuestionMembers

\* the questions parameter of parse_and_grade_answer_sheet
XQuestionLists(task) ==
    IF task = "parse_and_grade_answer_sheet"
    THEN {ObjList(<<QFull>>), ObjList(<<QNoNum>>)}
    ELSE {ObjList(<<>>)}

\* the learning_objectives parameter of generate_lesson_plan
XObjectives(task) ==
    IF task = "generate_lesson_plan"
    THEN {Null, StrList(<<<<"Add fractions">>>>)}
    ELSE {Null}

\* one call of one task: the reply of the model and the caller's parameters
XCall(task, response, learning_objectives, questions) ==
    [task |-> task, response |-> response, max_points |-> 100,
     topic |-> "Fractions", learning_objectives |-> learning_objectives,
     questions |-> questions]

Pending == [exc |-> "pending", val |-> Null]

\* the record kept of the quiz request answered last; initially none
NoQuizEvent ==
    [op |-> "none", http |-> 0, replied |-> FALSE, db_ok |-> TRUE, quiz_id |-> 0,
     body |-> <<>>, marks |-> <<>>, score |-> [num |-> 0, den |-> 1]]

SeedStudents == {1, 2, 3}

\* the record kept of the grading operation that ended last; initially none
NoEvent ==
    [n |-> 0, kind |-> "none", sid |-> 0, outcome |-> "none", http |-> 0,
     strategy |-> "none", replied |-> FALSE, reply |-> <<>>, db_ok |-> TRUE,
     requests |-> 0, first_ok |-> FALSE, current |-> "none",
     startn |-> 0, max_points |-> 0, stale |-> FALSE,
     snap |-> [assignment_id |-> 0, student_id |-> 0, content |-> "",
               score |-> Null, feedback |-> Null, rubric_scores |-> Null,
               graded_at |-> Null],
     result |-> [score |-> Null, feedback |-> Null, rubric_scores |-> Null,
                 graded_at |-> Null]]

\* the empty dict {}
EmptyDict == [k \in {} |-> Null]

\* a rubric column: NULL, or a JSON object (a function from keys to values)
NoRubric == [none |-> TRUE, d |-> EmptyDict]

Rubric(dct) == [none |-> FALSE, d |-> dct]

\* the assignment seed_sample_data creates: an essay with weighted criteria
SeedAssignment ==
    [assignment_type |-> "essay", max_points |-> 100,
     rubric |-> Rubric([k \in {"thesis"} |-> Str(<<"Clear and compelling thesis">>)])]

XInit ==
    /\ students = SeedStudents
    /\ assignments = <<SeedAssignment>>
    /\ submissions = <<>>
    /\ ops = <<>>
    /\ now = 0
    /\ last = NoEvent
    /\ nreq = 0
    /\ quizzes = <<>>
    /\ attempts = <<>>
    /\ qlast = NoQuizEvent
    /\ nquiz = 0
    /\ \E task \in XTasks, n \in 0..MaxReplyLen :
          \E response \in [1..n -> XAlphabet(task)],
             learning_objectives \in XObjectives(task),
             questions \in XQuestionLists(task) :
             xcall = XCall(task, response, learning_objectives, questions)
    /\ xout = Pending

XRest ==
    UNCHANGED <<students, assignments, submissions, ops, now, last, nreq, xcall,
                quizzes, attempts, qlast, nquiz>>

XGradeEssay ==
    /\ xcall.task = "grade_essay" /\ xout = Pending
    /\ xout' = grade_essay(xcall.response, xcall.max_points)
    /\ XRest

XLessonPlan ==
    /\ xcall.task = "generate_lesson_plan" /\ xout = Pending
    /\ xout' = generate_lesson_plan(xcall.response, xcall.topic,
                                    xcall.learning_objectives)
    /\ XRest

XQuiz ==
    /\ xcall.task = "generate_quiz" /\ xout = Pending
    /\ xout' = generate_quiz(xcall.response, xcall.topic)
    /\ XRest

XQuestions ==
    /\ xcall.task = "generate_assignment_questions" /\ xout = Pending
    /\ xout' = generate_assignment_questions(xcall.response, xcall.topic, NumQuestions)
    /\ XRest

XAnswerSheet ==
    /\ xcall.task = "parse_and_grade_answer_sheet" /\ xout = Pending
    /\ xout' = parse_and_grade_answer_sheet(xcall.response, xcall.questions,
                                            xcall.max_points)
    /\ XRest

XNext == XGradeEssay \/ XLessonPlan \/ XQuiz \/ XQuestions \/ XAnswerSheet

ExtractSpec == XInit /\ [][XNext]_vars

(***************************************************************************)
(* The grading operations of routers/assignments.py.                       *)
(***************************************************************************)
\* _generate: the reply text, or the exception raised on a network error,
\* a timeout or a non-2xx status
InferenceOutcomes(replies) ==
    {[ok |-> FALSE, text |-> <<>>]} \cup {[ok |-> TRUE, text |-> r] : r \in replies}

\* what a backend that has recovered answers to a further request
Recovered == [ok |-> TRUE, text |-> <<"txt">>]

GenerateWithRetry(backend) ==
    IF backend[1].ok
    THEN [ok |-> TRUE, text |-> backend[1].text, requests |-> 1]
    ELSE [ok |-> backend[2].ok, text |-> backend[2].text, requests |-> 2]

\* _generate, given what the backend answers to the first request and what
\* it would answer to a further one: one requests.post; its text is
\* returned, a RequestException is raised again as Exception
_generate(backend) ==
    [ok |-> backend[1].ok, text |-> backend[1].text, requests |-> 1]

Object(ms) == <<"{">> \o ms \o <<"}">>

\* replies to the essay prompt and to the answer-sheet prompt: prose, an
\* object with every field, objects with fields missing or null
GradingReplies(strategy) ==
    IF strategy = "answer_sheet"
    THEN {<<"txt">>,
          Object(<<"pct80", "paFull", "of", "st">>),
          Object(<<"paNoNum">>),
          Object(<<"pct80", "paNoMax">>)}
    ELSE {<<"txt">>,
          <<"txt">> \o Object(<<"os80", "df", "rs">>),
          Object(<<"osNull">>)}

\* replies to the assignment-question prompt
QuestionReplies ==
    {<<"txt">>, Object(<<"aqEmpty">>), Object(<<"aqNoNum">>), Object(<<"aqStr">>)}

AnswerSheetMarker == Str(<<"answer_sheet">>)

\* rubrics a caller of create_assignment may supply: none, or the caller's
\* own questions with the answer_sheet marker
CallerRubrics ==
    {NoRubric,
     Rubric([k \in {"questions", "grading_type"} |->
                IF k = "questions" THEN ObjList(<<QFull>>) ELSE AnswerSheetMarker])}

\* assignment.rubric or {}
RubricOrEmpty(rubric) == IF rubric.none \/ DOMAIN rubric.d = {} THEN EmptyDict ELSE rubric.d

\* questions and rubric.get("grading_type") == "answer_sheet"
SelectStrategy(rubric) ==
    LET questions == Get(rubric, "questions", ObjList(<<>>))
    IN  IF Truthy(questions) /\ Get(rubric, "grading_type", Null) = AnswerSheetMarker
        THEN "answer_sheet" ELSE "essay"

\* "\n".join(parts): the parts' atoms with a newline atom between parts
RECURSIVE JoinLines(_)
JoinLines(parts) ==
    IF parts = <<>> THEN <<>>
    ELSE IF Len(parts) = 1 THEN parts[1]
    ELSE parts[1] \o <<"\n">> \o JoinLines(Tail(parts))

RECURSIVE Flatten(_)
Flatten(seqs) == IF seqs = <<>> THEN <<>> ELSE Head(seqs) \o Flatten(Tail(seqs))

\* feedback_parts of the answer-sheet branch
FeedbackParts(result) ==
    LET bullets(items) == [i \in 1..Len(items) |-> <<"* ">> \o items[i]]
        strengths == IF Truthy(result.strengths)
                     THEN <<<<"\n\n**Strengths:**">>>> \o bullets(result.strengths.l)
                     ELSE <<>>
        areas == IF Truthy(result.areas_for_improvement)
                 THEN <<<<"\n\n**Areas for Improvement:**">>>>
                          \o bullets(result.areas_for_improvement.l)
                 ELSE <<>>
        answers == result.parsed_answers.a
        perQuestion ==
            IF Truthy(result.parsed_answers)
            THEN <<<<"\n\n**Question-by-Question Feedback:**">>>> \o
                 Flatten([i \in 1..Len(answers) |->
                    << <<"\nQuestion " \o ToString(answers[i].question_number) \o ": "
                           \o ToString(answers[i].score) \o "/"
                           \o ToString(answers[i].max_score) \o " points">>,
                       <<"  ">> \o answers[i].feedback >>])
            ELSE <<>>
    IN  <<result.overall_feedback.s>> \o strengths \o areas \o perQuestion

AnswerSheetGradeRawPercentage(response, max_points) ==
    LET r == AnswerSheetResult(response, max_points)
        result == r.val
    IN  IF r.exc # "none" THEN Raise(r.exc)
        ELSE IF result.percentage.ty # "num" THEN Raise("TypeError")
        ELSE IF result.overall_feedback.ty # "str" THEN Raise("TypeError")
        ELSE IF IterRaises(result.parsed_answers,
                           {"question_number", "score", "max_score", "feedback"}) # "none"
             THEN Raise(IterRaises(result.parsed_answers,
                           {"question_number", "score", "max_score", "feedback"}))
        ELSE Ret([score |-> result.percentage,
                  feedback |-> Str(JoinLines(FeedbackParts(result))),
                  rubric_scores |-> result.rubric_scores])

\* The answer-sheet branch of grade_submission_task after the reply.
AnswerSheetGrade(response, max_points) ==
    LET r == AnswerSheetResult(response, max_points)
        result == r.val
    IN  IF r.exc # "none" THEN Raise(r.exc)
        ELSE IF result.percentage.ty # "num" THEN Raise("TypeError")
        ELSE IF result.overall_feedback.ty # "str" THEN Raise("TypeError")
        ELSE IF IterRaises(result.parsed_answers,
                           {"question_number", "score", "max_score", "feedback"}) # "none"
             THEN Raise(IterRaises(result.parsed_answers,
                           {"question_number", "score", "max_score", "feedback"}))
        ELSE Ret([score |-> Num((result.percentage.n * max_points) \div 100),
                  feedback |-> Str(JoinLines(FeedbackParts(result))),
                  rubric_scores |-> result.rubric_scores])

EssayGradeDefaultFeedback(response, max_points) ==
    LET result == grade_essay(response, max_points).val
    IN  Ret([score |-> result.score,
             feedback |-> Str(<<"Good work! Keep improving.">>),
             rubric_scores |-> result.rubric_scores])

\* The essay branch of grade_submission_task, and grade_submission_manual.
EssayGrade(response, max_points) ==
    LET result == grade_essay(response, max_points).val
    IN  Ret([score |-> result.score,
             feedback |-> result.feedback,
             rubric_scores |-> result.rubric_scores])

TaskGrade(strategy, response, max_points) ==
    IF strategy = "answer_sheet"
    THEN AnswerSheetGrade(response, max_points)
    ELSE EssayGrade(response, max_points)

ManualGradeNoRubricScores(response, max_points) ==
    LET result == grade_essay(response, max_points).val
    IN  Ret([score |-> result.score,
             feedback |-> result.feedback,
             rubric_scores |-> Dict({})])

ManualGrade(response, max_points) == EssayGrade(response, max_points)

\* max_points of the seeded assignment and of the assignments callers create
MaxPointsValues == {100, 40}

\* TaskGrade and ManualGrade, tabulated over the replies of the model
TaskGradeTable ==
    [k \in {<<st, mp, r>> : st \in {"answer_sheet", "essay"}, mp \in MaxPointsValues,
                            r \in GradingReplies("answer_sheet") \cup GradingReplies("essay")}
        |-> TaskGrade(k[1], k[3], k[2])]

ManualGradeTable ==
    [k \in {<<mp, r>> : mp \in MaxPointsValues,
                        r \in GradingReplies("answer_sheet") \cup GradingReplies("essay")}
        |-> ManualGrade(k[2], k[1])]

QuestionsTable ==
    [r \in QuestionReplies \cup {<<>>} |->
        generate_assignment_questions(r, "Osmosis", NumQuestions).val]

\* the strategy grade_submission_manual applies to a rubric
ManualStrategy(rubric) == "essay"

GradeColumns == {"score", "feedback", "rubric_scores", "graded_at"}

\* db.commit() of a loaded row whose grade attributes were assigned `new`:
\* the unit of work puts into the UPDATE the attributes whose value differs
\* from the value loaded (snap); the other columns keep what the table holds.
\* A failed commit is rolled back.
PersistDirty(row, snap, new, ok) ==
    [c \in DOMAIN row |->
        IF c \in GradeColumns /\ new[c] # snap[c] THEN new[c] ELSE row[c]]

Persist(row, snap, new, ok) ==
    IF ok
    THEN [c \in DOMAIN row |->
             IF c \in GradeColumns /\ new[c] # snap[c] THEN new[c] ELSE row[c]]
    ELSE row

\* GradeSubmissionResponse(score: float, feedback: str, rubric_scores: Dict)
ResponseValid(new) ==
    new.score.ty = "num" /\ new.feedback.ty = "str" /\ new.rubric_scores.ty = "dict"

NewSubmission(assignment_id, student_id, content) ==
    [assignment_id |-> assignment_id, student_id |-> student_id, content |-> content,
     score |-> Null, feedback |-> Null, rubric_scores |-> Null, graded_at |-> Null]

StartedTask(sid) ==
    [kind |-> "task", pc |-> "waiting", sid |-> sid, strategy |-> "essay",
     max_points |-> 100, startn |-> 0,
     snap |-> NewSubmission(0, 0, "")]

\* background_tasks.add_task(grade_submission_task, db_submission.id, db):
\* the task is queued, to run after the response has been sent
QueuedTask(sid) ==
    [kind |-> "task", pc |-> "queued", sid |-> sid, strategy |-> "none",
     max_points |-> 0, startn |-> 0,
     snap |-> NewSubmission(0, 0, "")]

Event(op, outcome, http, gen, first_ok, db_ok, result) ==
    [n |-> last.n + 1, kind |-> op.kind, sid |-> op.sid, outcome |-> outcome,
     http |-> http, strategy |-> op.strategy, replied |-> gen.ok, reply |-> gen.text,
     requests |-> gen.requests, first_ok |-> first_ok,
     current |-> SelectStrategy(RubricOrEmpty(
                     assignments[submissions[op.sid].assignment_id].rubric)),
     db_ok |-> db_ok, startn |-> op.startn, max_points |-> op.max_points,
     stale |-> op.snap # submissions[op.sid], snap |-> op.snap,
     result |-> result]

\* an operation that ended before it sent a request
NotSent == [ok |-> FALSE, text |-> <<>>, requests |-> 0]

NoResult ==
    [score |-> Null, feedback |-> Null, rubric_scores |-> Null, graded_at |-> Null]

Remove(seq, i) == SubSeq(seq, 1, i - 1) \o SubSeq(seq, i + 1, Len(seq))

XUnchanged == UNCHANGED <<xcall, xout, quizzes, attempts, qlast, nquiz>>

(***************************************************************************)
(* Actions.                                                                *)
(***************************************************************************)
\* db.query(Assignment).filter(Assignment.id == assignment_id).first()
AssignmentFound(assignment_id) == assignment_id \in DOMAIN assignments

\* POST /api/assignments/ : the whole handler, its inference call included
CreateAssignmentOrError(assignment_type, max_points, rubric, gen) ==
    /\ nreq < MaxRequests
    /\ nreq' = nreq + 1
    /\ LET questions == QuestionsTable[gen.text]
           generates == assignment_type \in {"questions", "short_answer",
                                             "problem_solving"}
           stored == IF generates
                     THEN Rubric([k \in {"questions", "grading_type"} |->
                              IF k = "questions" THEN questions
                              ELSE AnswerSheetMarker])
                     ELSE rubric
       IN  IF generates /\ ~gen.ok
           THEN UNCHANGED assignments
           ELSE assignments' = Append(assignments,
                                      [assignment_type |-> assignment_type,
                                       max_points |-> max_points, rubric |-> stored])
    /\ UNCHANGED <<students, submissions, ops, now, last>>
    /\ XUnchanged

CreateAssignment(assignment_type, max_points, rubric, gen) ==
    /\ nreq < MaxRequests
    /\ nreq' = nreq + 1
    /\ LET questions == QuestionsTable[gen.text]
           stored == IF assignment_type \in {"questions", "short_answer",
                                             "problem_solving"} /\ gen.ok
                     THEN Rubric([k \in {"questions", "grading_type"} |->
                              IF k = "questions" THEN questions
                              ELSE AnswerSheetMarker])
                     ELSE rubric
       IN  assignments' = Append(assignments,
                                 [assignment_type |-> assignment_type,
                                  max_points |-> max_points, rubric |-> stored])
    /\ UNCHANGED <<students, submissions, ops, now, last>>
    /\ XUnchanged

create_assignment ==
    \E assignment_type \in {"essay", "short_answer"}, max_points \in {40},
       rubric \in CallerRubrics :
       \* an essay assignment sends no request
       \E gen \in IF assignment_type = "essay" THEN {NotSent}
                  ELSE InferenceOutcomes(QuestionReplies) :
          CreateAssignment(assignment_type, max_points, rubric, gen)

\* current_rubric = assignment.rubric or {}, with the two keys assigned
WithQuestions(rubric, questions) ==
    [k \in DOMAIN RubricOrEmpty(rubric) \cup {"questions", "grading_type"} |->
        IF k = "questions" THEN questions
        ELSE IF k = "grading_type" THEN AnswerSheetMarker
        ELSE rubric.d[k]]

\* assignment.rubric = current_rubric; db.commit(); db.refresh(assignment):
\* when the loaded rubric is a non-empty dict, `assignment.rubric or {}` is
\* that very object, changed in place and assigned to the attribute it came
\* from; the unit of work compares the attribute with the value it replaced,
\* finds them equal and sends no UPDATE, and the refresh loads the stored
\* rubric again.  A rubric of NULL or {} is replaced by a new dict.
RubricCommit(loaded, current_rubric, ok) ==
    IF ok /\ (loaded.none \/ DOMAIN loaded.d = {})
    THEN Rubric(current_rubric)
    ELSE loaded

\* POST /api/assignments/{assignment_id}/generate-questions : 404, or the
\* whole handler with its inference call; the result is the status answered
GenerateQuestions(assignment_id, gen, db_ok) ==
    /\ nreq < MaxRequests
    /\ IF AssignmentFound(assignment_id)
       THEN LET assignment == assignments[assignment_id]
                questions == QuestionsTable[gen.text]
                current_rubric == WithQuestions(assignment.rubric, questions)
            IN  /\ assignments' = [assignments EXCEPT ![assignment_id].rubric =
                       IF gen.ok THEN RubricCommit(@, current_rubric, db_ok) ELSE @]
                /\ nreq' = nreq + 1
       ELSE UNCHANGED <<assignments, nreq>>
    /\ UNCHANGED <<students, submissions, ops, now, last>>
    /\ XUnchanged

generate_questions_for_assignment ==
    \E assignment_id \in 1..(Len(assignments) + 1),
       gen \in InferenceOutcomes(QuestionReplies) :
       \* the commit is reached only with a reply
       \E db_ok \in IF gen.ok THEN BOOLEAN ELSE {TRUE} :
          GenerateQuestions(assignment_id, gen, db_ok)

StudentFoundAlways(student_id) == TRUE

\* db.query(Student).filter(Student.id == student_id).first()
StudentFound(student_id) == student_id \in students

\* POST /api/assignments/submissions : 404, or the row is committed ungraded
\* and grade_submission_task is handed to the background tasks
submit_assignment ==
    /\ nreq < MaxRequests
    /\ \E assignment_id \in 1..(Len(assignments) + 1), student_id \in {1, 4} :
          IF AssignmentFound(assignment_id) /\ StudentFound(student_id)
          THEN /\ submissions' = Append(submissions,
                     NewSubmission(assignment_id, student_id, "My answers"))
               /\ ops' = Append(ops, QueuedTask(Len(submissions) + 1))
               /\ nreq' = nreq + 1
          ELSE UNCHANGED <<submissions, ops, nreq>>
    /\ UNCHANGED <<students, assignments, now, last>>
    /\ XUnchanged

\* grade_submission_task up to the inference request: the two queries, the
\* choice of strategy and, for an answer sheet, the prompt
TaskStart(i) ==
    /\ ops[i].pc = "queued"
    /\ LET op == ops[i]
           submission == submissions[op.sid]
           assignment == assignments[submission.assignment_id]
           rubric == RubricOrEmpty(assignment.rubric)
           strategy == SelectStrategy(rubric)
           started == [op EXCEPT !.pc = "waiting", !.strategy = strategy,
                                 !.max_points = assignment.max_points,
                                 !.startn = last.n,
                                 !.snap = submission]
       IN  IF strategy = "answer_sheet"
              /\ AnswerSheetPromptRaises(Get(rubric, "questions", ObjList(<<>>))) # "none"
           THEN /\ ops' = Remove(ops, i)
                /\ last' = Event(started, "failed", 0, NotSent, FALSE, TRUE, NoResult)
           ELSE /\ ops' = [ops EXCEPT ![i] = started]
                /\ UNCHANGED last
    /\ UNCHANGED <<students, assignments, submissions, now, nreq>>
    /\ XUnchanged

SubmissionFoundIdle(submission_id) ==
    /\ submission_id \in DOMAIN submissions
    /\ \A i \in DOMAIN ops : ops[i].sid # submission_id

\* db.query(Submission).filter(Submission.id == submission_id).first()
SubmissionFound(submission_id) == submission_id \in DOMAIN submissions

\* response_model=SubmissionResponse: the columns of the refreshed row that
\* submit_assignment returns
SubmissionResponse(row) ==
    [assignment_id |-> row.assignment_id, student_id |-> row.student_id,
     content |-> row.content, score |-> row.score, feedback |-> row.feedback,
     rubric_scores |-> row.rubric_scores, graded_at |-> row.graded_at]

\* POST /api/assignments/grade up to the inference request: 404, or the row
\* and its assignment are loaded and grade_essay sends its prompt
ManualStart(submission_id) ==
    /\ nreq < MaxRequests
    /\ IF SubmissionFound(submission_id)
       THEN LET submission == submissions[submission_id]
                assignment == assignments[submission.assignment_id]
                rubric == RubricOrEmpty(assignment.rubric)
            IN  /\ ops' = Append(ops,
                      [kind |-> "manual", pc |-> "waiting", sid |-> submission_id,
                       strategy |-> ManualStrategy(rubric),
                       max_points |-> assignment.max_points,
                       startn |-> last.n, snap |-> submission])
                /\ nreq' = nreq + 1
       ELSE UNCHANGED <<ops, nreq>>
    /\ UNCHANGED <<students, assignments, submissions, now, last>>
    /\ XUnchanged

ReselectStrategy(op, rubric) == SelectStrategy(RubricOrEmpty(rubric))

\* the branch a grading operation is in when the reply arrives: the one it
\* took before the request, whatever the rubric holds by then
BranchTaken(op, rubric) == op.strategy

FlushedAll(sid) == DOMAIN submissions

\* the rows db.commit() of a grading operation can write: its session holds
\* the one Submission it loaded and changed
Flushed(sid) == {sid}

PostBlocks(op) == FALSE

\* requests.post(url, json=payload, timeout=120): the call ends, in a response
\* or in a RequestException, and the operation that waits for it goes on
PostEnds(op) == TRUE

\* The rest of a grading operation: the reply (or the communication failure)
\* arrives, the result is extracted, assigned and committed.
Finish(i) ==
    /\ ops[i].pc = "waiting"
    /\ PostEnds(ops[i])
    /\ \E first \in InferenceOutcomes(GradingReplies(ops[i].strategy)) :
       \* the commit is reached only with a reply
       \E db_ok \in IF first.ok THEN BOOLEAN ELSE {TRUE} :
          LET op == ops[i]
              gen == _generate(<<first, Recovered>>)
              branch == BranchTaken(op, assignments[submissions[op.sid].assignment_id].rubric)
              graded == IF ~gen.ok THEN Raise("Exception")
                        ELSE IF op.kind = "task"
                             THEN TaskGradeTable[<<branch, op.max_points, gen.text>>]
                             ELSE ManualGradeTable[<<op.max_points, gen.text>>]
              raised == graded.exc # "none"
              new == IF raised THEN NoResult
                     ELSE [score |-> graded.val.score,
                           feedback |-> graded.val.feedback,
                           rubric_scores |-> graded.val.rubric_scores,
                           graded_at |-> Num(now)]
              \* datetime.now() is read unless an exception came first
              clock == IF raised THEN now ELSE now + 1
              committed == ~raised /\ db_ok
              http == IF op.kind = "task" THEN 0
                      ELSE IF committed /\ ResponseValid(new) THEN 200 ELSE 500
          IN  /\ submissions' = [sid \in DOMAIN submissions |->
                     IF sid \in Flushed(op.sid)
                     THEN Persist(submissions[sid], op.snap, new, committed)
                     ELSE submissions[sid]]
              /\ last' = Event(op, IF committed THEN "graded" ELSE "failed", http,
                               gen, first.ok, raised \/ db_ok, new)
              /\ now' = clock
    /\ ops' = Remove(ops, i)
    /\ UNCHANGED <<students, assignments, nreq>>
    /\ XUnchanged

NoCall ==
    [task |-> "none", response |-> <<>>, max_points |-> 0, topic |-> "",
     learning_objectives |-> Null, questions |-> ObjList(<<>>)]

Init ==
    /\ students = SeedStudents
    /\ assignments = <<SeedAssignment>>
    /\ submissions = <<>>
    /\ ops = <<>>
    /\ now = 0
    /\ last = NoEvent
    /\ nreq = 0
    /\ quizzes = <<>>
    /\ attempts = <<>>
    /\ qlast = NoQuizEvent
    /\ nquiz = 0
    /\ xcall = NoCall
    /\ xout = Pending

Next ==
    \/ create_assignment
    \/ generate_questions_for_assignment
    \/ submit_assignment
    \/ \E i \in DOMAIN ops : TaskStart(i)
    \/ \E s \in 1..(Len(submissions) + 1) : ManualStart(s)
    \/ \E i \in DOMAIN ops : Finish(i)

Spec == Init /\ [][Next]_vars

\* the background grading operation of a submission has sent its request
\* and has not ended
TaskInProgress(sid) ==
    \E i \in DOMAIN ops :
        ops[i].kind = "task" /\ ops[i].sid = sid /\ ops[i].pc = "waiting"

\* grade_submission_task runs in the worker of its request: once the call
\* to the backend has ended, the rest of the task runs to its end
TaskFairness ==
    \A sid \in 1..MaxLiveRequests :
        WF_vars(\E i \in DOMAIN ops :
                    ops[i].kind = "task" /\ ops[i].sid = sid /\ Finish(i))

\* the steps of Next, for at most MaxLiveRequests requests
LiveNext ==
    \/ create_assignment /\ nreq' <= MaxLiveRequests
    \/ generate_questions_for_assignment /\ nreq' <= MaxLiveRequests
    \/ submit_assignment /\ nreq' <= MaxLiveRequests
    \/ \E i \in DOMAIN ops : TaskStart(i)
    \/ \E s \in 1..(Len(submissions) + 1) : ManualStart(s) /\ nreq' <= MaxLiveRequests
    \/ \E i \in DOMAIN ops : Finish(i)

LiveSpec == Init /\ [][LiveNext]_vars /\ TaskFairness

(***************************************************************************)
(* The quiz routes of routers/quizzes.py.  Texts are sequences of          *)
(* characters; scores are fractions in lowest terms.                       *)
(***************************************************************************)
TrueText == <<"t", "r", "u", "e">>

SubmittedTrue == <<" ", "T", "R", "U", "E", " ">>

Photosynthesis == <<"p", "h", "o", "t", "o", "s", "y", "n", "t", "h", "e", "s", "i", "s">>

PhotosynthesisSentence ==
    <<"p", "h", "o", "t", "o", "s", "y", "n", "t", "h", "e", "s", "i", "s", " ", "c", "o", "n", "v", "e", "r", "t", "s", " ",
      "l", "i", "g", "h", "t", " ", "t", "o", " ", "e", "n", "e", "r", "g", "y">>

Respiration == <<"r", "e", "s", "p", "i", "r", "a", "t", "i", "o", "n">>

BlankText == <<" ", " ">>

UpperLetters ==
    <<"A", "B", "C", "D", "E", "F", "G", "H", "I", "J", "K", "L", "M", "N", "O", "P", "Q", "R", "S", "T", "U", "V", "W", "X", "Y", "Z">>

LowerLetters ==
    <<"a", "b", "c", "d", "e", "f", "g", "h", "i", "j", "k", "l", "m", "n", "o", "p", "q", "r", "s", "t", "u", "v", "w", "x", "y", "z">>

\* str.lower()
PyLower(cs) ==
    [i \in DOMAIN cs |->
        IF \E j \in DOMAIN UpperLetters : UpperLetters[j] = cs[i]
        THEN LowerLetters[CHOOSE j \in DOMAIN UpperLetters : UpperLetters[j] = cs[i]]
        ELSE cs[i]]

\* a in b, for str
IsSubstring(a, b) ==
    \E i \in 0..(Len(b) - Len(a)) : SubSeq(b, i + 1, i + Len(a)) = a

\* keys of a mapping: the str of a number and the int are different keys
StrKey(i) == [ty |-> "str", v |-> i]

IntKey(i) == [ty |-> "int", v |-> i]

\* str(idx)
PyStr(idx) == StrKey(idx)

\* answers: Dict[int, str] : the keys of the JSON body, which are strings,
\* are converted to int when the request is validated
QuizAttemptCreate(body) ==
    [k \in {IntKey(j.v) : j \in DOMAIN body} |-> body[StrKey(k.v)]]

\* questions a stored quiz may hold: whatever list the model returned
QTrueFalse ==
    [question |-> <<"Q">>, question_type |-> "true_false",
     correct_answer |-> TrueText, points |-> 1]

QShort ==
    [question |-> <<"Q">>, question_type |-> "short_answer",
     correct_answer |-> PhotosynthesisSentence, points |-> 1]

QNoType == [question |-> <<"Q">>, correct_answer |-> PhotosynthesisSentence]

QBlankKey ==
    [question |-> <<"Q">>, question_type |-> "multiple_choice",
     correct_answer |-> <<>>, points |-> 2]

QNegative ==
    [question |-> <<"Q">>, question_type |-> "short_answer",
     correct_answer |-> TrueText, points |-> -1]

QZero ==
    [question |-> <<"Q">>, question_type |-> "true_false",
     correct_answer |-> TrueText, points |-> 0]

QuizQuestionPool == {QTrueFalse, QShort, QNoType, QBlankKey, QNegative, QZero}

QuizLists ==
    {<<>>} \cup {<<q>> : q \in QuizQuestionPool}
           \cup {<<p, q>> : p, q \in QuizQuestionPool}

\* replies to the quiz prompt as token sequences
QuizReplies == {<<"txt">>, Object(<<"qzPartial">>), Object(<<>>)}

\* what ollama_service.generate_quiz returns or raises: _generate's
\* exception, the result on a token reply, or the list of a reply whose
\* "questions" member is that list
QuizGenerations ==
    {[ok |-> FALSE, questions |-> Null]}
        \cup {[ok |-> TRUE, questions |-> generate_quiz(r, "Fractions").val] :
                 r \in QuizReplies}
        \cup {[ok |-> TRUE, questions |-> ObjList(qs)] : qs \in QuizLists}

\* response_model=QuizResponse: questions is a List[QuizQuestion]
QuizResponse(questions) ==
    /\ questions.ty = "objs"
    /\ \A i \in DOMAIN questions.a :
          {"question", "question_type", "correct_answer"} \subseteq DOMAIN questions.a[i]

\* bodies of POST /api/quizzes/attempts: answers for question indexes 0, 1
AnswerTexts == {SubmittedTrue, Photosynthesis, Respiration, BlankText}

AnswerBodies ==
    UNION {[{StrKey(i) : i \in idx} -> AnswerTexts] : idx \in SUBSET {0, 1}}

\* attempt.answers.get(str(idx), "").strip().lower()
StudentAnswer(answers, idx) == PyLower(Strip(Get(answers, PyStr(idx), <<>>)))

\* question.get("correct_answer", "").strip().lower()
CorrectAnswer(question) == PyLower(Strip(Get(question, "correct_answer", <<>>)))

\* question.get("points", 1.0)
Points(question) == Get(question, "points", 1)

\* the branch that adds the question's points to earned_points
IsCorrect(question, student_answer) ==
    LET correct_answer == CorrectAnswer(question)
    IN  IF Get(question, "question_type", "") \in {"multiple_choice", "true_false"}
        THEN student_answer = correct_answer
        ELSE /\ student_answer # <<>>
             /\ correct_answer # <<>>
             /\ IsSubstring(student_answer, correct_answer)

\* for idx, question in enumerate(questions): which questions earn points
QuizMarks(questions, answers) ==
    [i \in DOMAIN questions |-> IsCorrect(questions[i], StudentAnswer(answers, i - 1))]

RECURSIVE TotalPoints(_)
TotalPoints(questions) ==
    IF questions = <<>> THEN 0
    ELSE Points(Head(questions)) + TotalPoints(Tail(questions))

RECURSIVE EarnedPoints(_, _)
EarnedPoints(questions, marks) ==
    IF questions = <<>> THEN 0
    ELSE (IF Head(marks) THEN Points(Head(questions)) ELSE 0)
            + EarnedPoints(Tail(questions), Tail(marks))

RECURSIVE GCD(_, _)
GCD(a, b) == IF b = 0 THEN a ELSE GCD(b, a % b)

Abs(x) == IF x < 0 THEN -x ELSE x

\* the number n / d, d > 0, in lowest terms
Frac(n, d) ==
    LET g == GCD(Abs(n), d)
    IN  [num |-> n \div g, den |-> d \div g]

QuizScoreUnguarded(earned_points, total_points) ==
    IF total_points # 0
    THEN Ret(Frac(earned_points * 100 * (IF total_points < 0 THEN -1 ELSE 1),
                  Abs(total_points)))
    ELSE Raise("ZeroDivisionError")

\* (earned_points / total_points * 100) if total_points > 0 else 0
QuizScore(earned_points, total_points) ==
    IF total_points > 0
    THEN Ret(Frac(earned_points * 100, total_points))
    ELSE Ret(Frac(0, 1))

QuizEvent(op, http, replied, db_ok, quiz_id, body, marks, score) ==
    [op |-> op, http |-> http, replied |-> replied, db_ok |-> db_ok,
     quiz_id |-> quiz_id, body |-> body, marks |-> marks, score |-> score]

QuizUnchanged ==
    UNCHANGED <<students, assignments, submissions, ops, last, nreq, xcall, xout>>

\* POST /api/quizzes/generate : 404, or the inference call, the commit of the
\* quiz and the response
GenerateQuizRoute ==
    /\ nquiz < MaxQuizRequests
    /\ \E course_id \in {1, 2}, gen \in QuizGenerations, db_ok \in BOOLEAN :
          IF course_id # 1
          THEN UNCHANGED <<quizzes, qlast, nquiz>>
          ELSE LET committed == gen.ok /\ db_ok
                   http == IF committed /\ QuizResponse(gen.questions)
                           THEN 200 ELSE 500
               IN  /\ quizzes' = IF committed THEN Append(quizzes, gen.questions)
                                 ELSE quizzes
                   /\ qlast' = QuizEvent("generate", http, gen.ok, ~gen.ok \/ db_ok,
                                         IF committed THEN Len(quizzes) + 1 ELSE 0,
                                         <<>>, <<>>, Frac(0, 1))
                   /\ nquiz' = nquiz + 1
    /\ UNCHANGED <<attempts, now>>
    /\ QuizUnchanged

\* POST /api/quizzes/attempts : 404, or the attempt is graded and committed
submit_quiz_attempt ==
    /\ nquiz < MaxQuizRequests
    /\ \E quiz_id \in 1..(Len(quizzes) + 1), student_id \in {1, 4},
          body \in AnswerBodies, db_ok \in BOOLEAN :
          IF quiz_id \notin DOMAIN quizzes \/ student_id \notin students
          THEN UNCHANGED <<attempts, qlast, nquiz, now>>
          ELSE LET attempt == QuizAttemptCreate(body)
                   questions == quizzes[quiz_id].a
                   marks == QuizMarks(questions, attempt)
                   score == QuizScore(EarnedPoints(questions, marks),
                                      TotalPoints(questions))
                   stored == score.exc = "none" /\ db_ok
               IN  /\ attempts' =
                          IF stored
                          THEN Append(attempts,
                                      [quiz_id |-> quiz_id, student_id |-> student_id,
                                       answers |-> attempt, score |-> score.val,
                                       completed_at |-> now])
                          ELSE attempts
                   /\ qlast' = QuizEvent("attempt", IF stored THEN 200 ELSE 500,
                                         FALSE, db_ok, quiz_id, body, marks,
                                         IF score.exc = "none" THEN score.val
                                         ELSE Frac(0, 1))
                   /\ now' = IF score.exc = "none" THEN now + 1 ELSE now
                   /\ nquiz' = nquiz + 1
    /\ UNCHANGED quizzes
    /\ QuizUnchanged

QuizNext == GenerateQuizRoute \/ submit_quiz_attempt

QuizSpec == Init /\ [][QuizNext]_vars

(***************************************************************************)
(* Properties.                                                             *)
(***************************************************************************)
Graded(row) == row.score # Null /\ row.feedback # Null /\ row.graded_at # Null

Ungraded(row) == \A c \in GradeColumns : row[c] = Null

AssignmentOf(sid) == assignments[submissions[sid].assignment_id]

\* a grading operation ended in this step
Ended == last'.n = last.n + 1

\* C1: in every persisted state of a submission, graded_at is set if and
\* only if score and feedback are both present.
C1_GradedAtIffScoreAndFeedback ==
    \A sid \in DOMAIN submissions :
        (submissions[sid].graded_at # Null)
            <=> (submissions[sid].score # Null /\ submissions[sid].feedback # Null)

\* C2: a background grading operation that fails (communication failure, an
\* exception while selecting the strategy, composing the feedback or
\* committing) surfaces no error and leaves score, feedback, rubric_scores and
\* graded_at as they were; a never-graded submission stays ungraded.
C2_FailedTaskChangesNothing ==
    [][(Ended /\ last'.kind = "task" /\ last'.outcome = "failed")
          => /\ last'.http = 0
             /\ submissions' = submissions
             /\ (Ungraded(submissions[last'.sid])
                    => Ungraded(submissions'[last'.sid]))]_vars

C2_Witness ==
    /\ last.kind = "task" /\ last.outcome = "failed"
    /\ last.replied /\ ~last.db_ok
    /\ Ungraded(submissions[last.sid])

\* the reply has no "{", or no "}", or the text from the first "{" to the
\* last "}" is not a JSON object
Unparseable(response) ==
    LET first == Find(response, "{")
        final == RFind(response, "}")
    IN  \/ first = -1
        \/ final = -1
        \/ final < first
        \/ ~JsonValid(SubSeq(response, first + 1, final + 1))

\* the call reached the model (the answer-sheet prompt could be built)
XReplied ==
    /\ xout # Pending
    /\ xcall.task = "parse_and_grade_answer_sheet"
          => AnswerSheetPromptRaises(xcall.questions) = "none"

\* the fallback value of each task, as section 4.3 tabulates it
XIsFallback ==
    LET v == xout.val
        seventyFive == Num((xcall.max_points * 75) \div 100)
    IN  CASE xcall.task = "grade_essay" ->
               /\ v.score = seventyFive
               /\ v.feedback = Str(xcall.response)
               /\ v.rubric_scores = Dict({})
               /\ v.strengths = StrList(<<>>)
               /\ v.areas_for_improvement = StrList(<<>>)
          [] xcall.task = "generate_lesson_plan" ->
               /\ v.title = Str(<<"Lesson: " \o xcall.topic>>)
               /\ v.objectives = IF xcall.learning_objectives = Null
                                 THEN StrList(<<<<"Understand " \o xcall.topic>>>>)
                                 ELSE xcall.learning_objectives
               /\ Len(v.activities.a) = 1
               /\ v.activities.a[1].name = "Introduction"
               /\ v.activities.a[1].duration = 10
               /\ v.content = IF \E i \in DOMAIN xcall.response : xcall.response[i] = "long"
                              THEN Str(<<"Lesson plan content">>)
                              ELSE Str(xcall.response)
          [] xcall.task = "generate_quiz" ->
               /\ Len(v.a) = 1
               /\ v.a[1].question_type = "short_answer"
               /\ v.a[1].question = <<"Question about " \o xcall.topic>>
          [] xcall.task = "generate_assignment_questions" ->
               /\ Len(v.a) = NumQuestions
               /\ \A i \in 1..NumQuestions :
                     /\ v.a[i].question_number = i
                     /\ v.a[i].points = 10
                     /\ v.a[i].model_answer = <<"Model answer">>
          [] OTHER ->
               /\ v.percentage = Num(75)
               /\ v.total_score = seventyFive
               /\ v.parsed_answers = ObjList(<<>>)
               /\ v.rubric_scores = Dict({})
               /\ v.overall_feedback = Str(<<"Answer sheet graded. Good effort overall.">>)

\* C3: for each of the five tasks and every reply with no "{", no "}" or an
\* invalid JSON span, the function raises nothing and returns the task's
\* fixed fallback value.
C3_FallbackOnExtractionFailure ==
    (XReplied /\ Unparseable(xcall.response))
        => (xout.exc = "none" /\ XIsFallback)

C3_Witness ==
    /\ XReplied
    /\ xcall.task = "parse_and_grade_answer_sheet"
    /\ Find(xcall.response, "{") # -1
    /\ RFind(xcall.response, "}") > Find(xcall.response, "{")
    /\ Unparseable(xcall.response)
    /\ xout.exc = "none"

\* the fields each task's schema declares
DeclaredFields(task) ==
    CASE task = "grade_essay" ->
           {"score", "feedback", "rubric_scores", "strengths", "areas_for_improvement"}
      [] task = "generate_lesson_plan" ->
           {"title", "objectives", "materials", "activities", "content",
            "standards_aligned", "differentiation", "assessment"}
      [] task = "generate_quiz" ->
           {"question", "question_type", "options", "correct_answer",
            "explanation", "points"}
      [] task = "generate_assignment_questions" ->
           {"question_number", "question_text", "model_answer", "key_points", "points"}
      [] OTHER ->
           {"parsed_answers", "total_score", "percentage", "overall_feedback",
            "strengths", "areas_for_improvement"}

\* C4: for every reply that holds one well-formed JSON object, whichever
\* fields it has or lacks, each of the five functions raises nothing and
\* returns a result with every declared field present.
C4_EveryDeclaredFieldPresent ==
    (XReplied /\ ~Unparseable(xcall.response))
        => /\ xout.exc = "none"
           /\ IF xcall.task \in {"generate_quiz", "generate_assignment_questions"}
              THEN \A i \in DOMAIN xout.val.a :
                      DeclaredFields(xcall.task) \subseteq DOMAIN xout.val.a[i]
              ELSE DeclaredFields(xcall.task) \subseteq DOMAIN xout.val

\* C5: when the inference request of a background grading operation
\* returned text and the database commit did not fail, the submission ends
\* Graded, whatever the text was.
C5_TextAndCommitImplyGraded ==
    (last.kind = "task" /\ last.replied /\ last.db_ok)
        => Graded(submissions[last.sid])

\* the rubric has a non-empty questions list and the answer_sheet marker
AnswerSheetRubric(rubric) ==
    /\ ~rubric.none
    /\ "questions" \in DOMAIN rubric.d
    /\ IsList(rubric.d["questions"])
    /\ Truthy(rubric.d["questions"])
    /\ "grading_type" \in DOMAIN rubric.d
    /\ rubric.d["grading_type"] = AnswerSheetMarker

\* C6: a background grading operation uses the answer-sheet strategy if and
\* only if the assignment's stored rubric has a non-empty questions list and
\* grading_type equal to answer_sheet, and the essay strategy otherwise.
C6_StrategySelection ==
    /\ \A i \in DOMAIN ops :
          (ops[i].kind = "task" /\ ops[i].pc = "waiting")
              => (ops[i].strategy = "answer_sheet"
                     <=> AnswerSheetRubric(AssignmentOf(ops[i].sid).rubric))
    /\ last.kind = "task"
          => (last.strategy = "answer_sheet"
                 <=> AnswerSheetRubric(AssignmentOf(last.sid).rubric))

\* C7: a manual grade of a submission uses the strategy that the background
\* grading of that submission uses.
C7_ManualUsesTaskStrategy ==
    \A i \in DOMAIN ops :
        ops[i].kind = "manual"
            => ops[i].strategy
                  = SelectStrategy(RubricOrEmpty(AssignmentOf(ops[i].sid).rubric))

\* two grading runs of one submission in sequence, the second started after
\* the first ended, both given the same reply text, both committed
SecondRun ==
    /\ Ended
    /\ last.outcome = "graded" /\ last'.outcome = "graded"
    /\ last'.sid = last.sid
    /\ last'.startn = last.n
    /\ last'.reply = last.reply

C9_FieldsFromOneOperation ==
    last.outcome = "graded"
        => \A c \in GradeColumns : submissions[last.sid][c] = last.result[c]

\* C10: grading operations of one submission are not serialized: while
\* operations on a submission are in flight a manual grade of it is still
\* accepted, every operation awaiting its reply can still commit, and the
\* latest commit's graded_at is the persisted one.
C10_GradingNotSerialized ==
    /\ \A sid \in DOMAIN submissions :
          nreq < MaxRequests
              => ENABLED (ManualStart(sid) /\ Len(ops') = Len(ops) + 1)
    /\ \A i \in DOMAIN ops :
          ops[i].pc = "waiting"
              => ENABLED (Finish(i) /\ last'.outcome = "graded")
    /\ last.outcome = "graded"
          => submissions[last.sid].graded_at = last.result.graded_at

C10_Witness ==
    /\ nreq = 2
    /\ last.kind = "manual" /\ last.outcome = "graded"
    /\ last.stale
    /\ last.startn = 0 /\ last.n = 2

\* C11: submit_assignment answers with the submission ungraded and only
\* queues the grading task; a grading operation exists only for a committed
\* submission, and none exists for it before the submit step.
C11_SubmitDoesNotWaitForGrading ==
    [][/\ \A i \in DOMAIN ops' : ops'[i].sid \in DOMAIN submissions'
       /\ (Len(submissions') = Len(submissions) + 1)
          => LET sid == Len(submissions')
                 response == SubmissionResponse(submissions'[sid])
             IN  /\ response.score = Null
                 /\ response.feedback = Null
                 /\ response.graded_at = Null
                 /\ \A i \in DOMAIN ops : ops[i].sid # sid
                 /\ \E i \in DOMAIN ops' :
                       /\ ops'[i].sid = sid
                       /\ ops'[i].kind = "task" /\ ops'[i].pc = "queued"
                 /\ last' = last]_vars

C11_Witness ==
    \E i \in DOMAIN ops :
        /\ ops[i].kind = "task" /\ ops[i].pc = "queued"
        /\ ops[i].sid \in DOMAIN submissions
        /\ Ungraded(submissions[ops[i].sid])

\* a background grading operation ended with a commit
TaskGraded(strategy) ==
    /\ last.kind = "task" /\ last.strategy = strategy
    /\ last.replied /\ last.outcome = "graded"

\* the committed row holds what the operation assigned in every column the
\* operation read unchanged
Persisted(columns) ==
    ~last.stale => \A c \in columns : submissions[last.sid][c] = last.result[c]

\* grade_essay on replies of at most two tokens, for both max_points
EssayFallbackReturned ==
    \A max_points \in MaxPointsValues, a, b \in {"{", "}", "txt", "os80", ""} :
        LET response == SelectSeq(<<a, b>>, LAMBDA t : t # "")
            v == grade_essay(response, max_points)
        IN  Unparseable(response)
               => /\ v.exc = "none"
                  /\ v.val.score = Num((max_points * 75) \div 100)
                  /\ v.val.feedback = Str(response)
                  /\ v.val.rubric_scores = Dict({})
                  /\ v.val.strengths = StrList(<<>>)
                  /\ v.val.areas_for_improvement = StrList(<<>>)

\* C12: when extraction fails in essay grading, grade_essay returns 75% of
\* max_points, the raw text as feedback and empty rubric_scores, strengths and
\* areas_for_improvement, and the grading operation persists that score and
\* feedback.
C12_EssayFallbackPersisted ==
    /\ EssayFallbackReturned
    /\ (TaskGraded("essay") /\ Unparseable(last.reply))
          => /\ last.result.score = Num((last.max_points * 75) \div 100)
             /\ last.result.feedback = Str(last.reply)
             /\ last.result.rubric_scores = Dict({})
             /\ Persisted({"score", "feedback", "rubric_scores"})

C12_Witness ==
    /\ TaskGraded("essay") /\ Unparseable(last.reply)
    /\ last.max_points = 40 /\ ~last.stale
    /\ submissions[last.sid].score = Num(30)
    /\ submissions[last.sid].feedback = Str(<<"txt">>)

\* C13: in answer-sheet mode with an extracted reply, the persisted score is
\* the percentage the model reported, divided by 100, times max_points.
C13_AnswerSheetScore ==
    (TaskGraded("answer_sheet") /\ ~Unparseable(last.reply))
        => LET reported == JsonLoads(JsonSpan(last.reply))
           IN  "percentage" \in DOMAIN reported
                  => /\ last.result.score.ty = "num"
                     /\ last.result.score.n * 100
                           = reported["percentage"].n * last.max_points
                     /\ Persisted({"score"})

C13_Witness ==
    /\ TaskGraded("answer_sheet") /\ ~Unparseable(last.reply)
    /\ JsonLoads(JsonSpan(last.reply))["percentage"] = Num(80)
    /\ last.max_points = 40 /\ ~last.stale
    /\ submissions[last.sid].score = Num(32)

\* the feedback composed from the answer-sheet fallback
FallbackFeedback ==
    Str(<<"Answer sheet graded. Good effort overall.", "\n",
          "\n\n**Strengths:**", "\n",
          "* ", "Attempted all questions", "\n",
          "\n\n**Areas for Improvement:**", "\n",
          "* ", "Provide more detailed answers">>)

\* C14: when extraction fails in answer-sheet mode the operation persists
\* 75% of max_points, empty rubric_scores and the feedback composed from the
\* generic fallback, with no question-by-question section.
C14_AnswerSheetFallbackPersisted ==
    (TaskGraded("answer_sheet") /\ Unparseable(last.reply))
        => /\ last.result.score = Num((last.max_points * 75) \div 100)
           /\ last.result.rubric_scores = Dict({})
           /\ last.result.feedback = FallbackFeedback
           /\ \A i \in DOMAIN last.result.feedback.s :
                 last.result.feedback.s[i] # "\n\n**Question-by-Question Feedback:**"
           /\ Persisted({"score", "feedback", "rubric_scores"})

C14_Witness ==
    /\ TaskGraded("answer_sheet") /\ Unparseable(last.reply)
    /\ ~last.stale
    /\ submissions[last.sid].score = Num(30)
    /\ submissions[last.sid].feedback = FallbackFeedback
    /\ submissions[last.sid].rubric_scores = Dict({})

\* the quiz that the attempt answered last was made on
AttemptedQuestions == quizzes[qlast.quiz_id].a

\* the answer the request carries for a question index, "" when absent
Submitted(body, idx) == IF StrKey(idx) \in DOMAIN body THEN body[StrKey(idx)] ELSE <<>>

\* trim and lowercase
Normalized(text) == PyLower(Strip(text))

\* the matching rule of the two exact-match types and of all other types
MatchesRule(question, text) ==
    LET student == Normalized(text)
        correct == Normalized(Get(question, "correct_answer", <<>>))
    IN  IF Get(question, "question_type", "") \in {"multiple_choice", "true_false"}
        THEN student = correct
        ELSE student # <<>> /\ IsSubstring(student, correct)

\* C15: a multiple_choice or true_false question at index i earns its points
\* if and only if the answer submitted for index i, trimmed and lowercased,
\* equals the correct answer, trimmed and lowercased.
C15_ExactMatchRule ==
    (qlast.op = "attempt" /\ qlast.http = 200)
        => \A i \in DOMAIN AttemptedQuestions :
              Get(AttemptedQuestions[i], "question_type", "")
                    \in {"multiple_choice", "true_false"}
                 => (qlast.marks[i]
                        <=> MatchesRule(AttemptedQuestions[i], Submitted(qlast.body, i - 1)))

\* C16: a question of any other type at index i earns its points if and only
\* if the normalized answer submitted for index i is non-empty and a
\* substring of the normalized correct answer.
C16_SubstringRule ==
    (qlast.op = "attempt" /\ qlast.http = 200)
        => \A i \in DOMAIN AttemptedQuestions :
              Get(AttemptedQuestions[i], "question_type", "")
                    \notin {"multiple_choice", "true_false"}
                 => (qlast.marks[i]
                        <=> MatchesRule(AttemptedQuestions[i], Submitted(qlast.body, i - 1)))

\* C17: the stored score is the points of the correctly answered questions
\* over the points of all questions, times 100.
C17_ScoreIsEarnedOverTotal ==
    (qlast.op = "attempt" /\ qlast.http = 200 /\ TotalPoints(AttemptedQuestions) > 0)
        => LET correct == [i \in DOMAIN AttemptedQuestions |->
                              MatchesRule(AttemptedQuestions[i],
                                          Submitted(qlast.body, i - 1))]
           IN  attempts[Len(attempts)].score
                  = Frac(EarnedPoints(AttemptedQuestions, correct) * 100,
                         TotalPoints(AttemptedQuestions))

\* C18: when the total points of the quiz are 0, submit_quiz_attempt stores
\* an attempt with score 0 and returns it.
C18_ZeroTotalScoresZero ==
    (qlast.op = "attempt" /\ qlast.db_ok /\ TotalPoints(AttemptedQuestions) = 0)
        => /\ qlast.http = 200
           /\ qlast.score = Frac(0, 1)
           /\ attempts # <<>>
           /\ attempts[Len(attempts)].quiz_id = qlast.quiz_id
           /\ attempts[Len(attempts)].score = Frac(0, 1)

C18_Witness ==
    /\ qlast.op = "attempt" /\ qlast.http = 200
    /\ AttemptedQuestions = <<>>
    /\ Len(attempts) = 1
    /\ attempts[1].score = Frac(0, 1)

\* C19: the score computed by submit_quiz_attempt lies between 0 and 100.
C19_ScoreInRange ==
    (qlast.op = "attempt" /\ qlast.http = 200)
        => /\ 0 <= qlast.score.num
           /\ qlast.score.num <= 100 * qlast.score.den

\* C20: given that the submission and its assignment exist, manual grading
\* answers with an error only when the inference call failed: whenever the
\* backend returned a reply text (and the database did not fail) the response
\* is a success.
C20_ErrorOnlyOnCommunicationFailure ==
    (last.kind = "manual" /\ last.replied /\ last.db_ok) => last.http = 200

\* C21: a grading operation sends at most one request to the inference
\* backend, and when that request fails the operation gets no reply text,
\* grades nothing and ends failed: no further request is sent.
C21_OneRequestNoRetry ==
    last.n > 0
        => /\ last.requests <= 1
           /\ (last.requests = 1 /\ ~last.first_ok)
                 => /\ ~last.replied
                    /\ last.outcome = "failed"
                    /\ last.result = NoResult

\* a grading operation whose only request failed, and one that sent none
C21_Witness ==
    /\ last.kind = "task" /\ last.requests = 1 /\ ~last.first_ok
    /\ last.outcome = "failed"

\* C22: a background grading operation is scheduled only in the step that
\* commits its submission, with score, feedback, rubric_scores and graded_at
\* absent and with an assignment and a student that exist; a submission
\* row is created only for an existing assignment and an existing student,
\* so a request that names a missing one creates no row and schedules
\* nothing.
C22_ScheduledOnlyForCommittedUngraded ==
    [][LET Queued(o) ==
               {o[i].sid : i \in {j \in DOMAIN o : o[j].kind = "task" /\ o[j].pc = "queued"}}
       IN
       /\ \A sid \in Queued(ops') \ Queued(ops) :
             /\ Len(submissions') = Len(submissions) + 1
             /\ sid = Len(submissions')
             /\ Ungraded(submissions'[sid])
             /\ AssignmentFound(submissions'[sid].assignment_id)
             /\ submissions'[sid].student_id \in students
       /\ \A sid \in DOMAIN submissions' \ DOMAIN submissions :
             /\ AssignmentFound(submissions'[sid].assignment_id)
             /\ submissions'[sid].student_id \in students
             /\ Queued(ops') \ Queued(ops) = {sid}
       /\ (Len(submissions') = Len(submissions)) => Queued(ops') \subseteq Queued(ops)]_vars

\* a submission to an assignment created by a caller, waiting to be graded
C22_Witness ==
    /\ Len(submissions) = 2
    /\ submissions[2].assignment_id = 2 /\ submissions[2].student_id \in students
    /\ \E i \in DOMAIN ops :
          ops[i].kind = "task" /\ ops[i].pc = "queued" /\ ops[i].sid = 2
    /\ Ungraded(submissions[2])

C24_GradingFrame ==
    [][(Ended /\ last'.kind = "task")
        => /\ assignments' = assignments
           /\ students' = students
           /\ \A sid \in DOMAIN submissions :
                 /\ sid # last'.sid => submissions'[sid] = submissions[sid]
                 /\ \A c \in DOMAIN submissions[sid] \ GradeColumns :
                       submissions'[sid][c] = submissions[sid][c]
           /\ last'.outcome = "graded"
                 => \A c \in GradeColumns \ {"graded_at"} :
                       last'.result[c] =
                           TaskGradeTable[<<last'.strategy, last'.max_points,
                                            last'.reply>>].val[c]]_vars

\* a background operation graded one submission after another submission
\* had been graded, and the other one kept its grade
C24_Witness ==
    /\ last.kind = "task" /\ last.outcome = "graded"
    /\ \E sid \in DOMAIN submissions :
          sid # last.sid /\ Graded(submissions[sid]) /\ Graded(submissions[last.sid])

\* C25: a background grading operation selects its strategy when it starts,
\* from the rubric stored then, and ends with that strategy also when the
\* rubric has changed since: the score, feedback and rubric_scores it
\* computes, and every one of these columns it writes, come from that
\* strategy applied to the reply.
C25_StrategyDecidedOnce ==
    [][/\ \A i \in DOMAIN ops \cap DOMAIN ops' :
             (/\ ops[i].pc = "queued" /\ ops'[i].pc = "waiting"
              /\ ops'[i].sid = ops[i].sid /\ ops'[i].kind = "task")
                => ops'[i].strategy =
                       SelectStrategy(RubricOrEmpty(AssignmentOf(ops[i].sid).rubric))
       /\ (Ended /\ last'.kind = "task" /\ last'.outcome = "graded")
             => \E i \in DOMAIN ops :
                   /\ ops[i].kind = "task" /\ ops[i].sid = last'.sid
                   /\ last'.strategy = ops[i].strategy
                   /\ LET produced == TaskGradeTable[<<ops[i].strategy, ops[i].max_points,
                                                       last'.reply>>].val
                      IN  \A c \in GradeColumns \ {"graded_at"} :
                             /\ last'.result[c] = produced[c]
                             /\ submissions'[last'.sid][c] # submissions[last'.sid][c]
                                   => submissions'[last'.sid][c] = produced[c]]_vars

\* a background operation that selected the essay strategy has graded its
\* submission although the rubric stored by then selects the answer sheet
C25_Witness ==
    /\ last.kind = "task" /\ last.outcome = "graded"
    /\ last.strategy = "essay" /\ last.current = "answer_sheet"
    /\ submissions[last.sid].feedback = last.result.feedback

\* C26: a submission whose score, feedback and graded_at are set keeps all
\* three set through every later step: no grading operation, failed or
\* successful, background or manual, makes one of them absent again.
C26_GradedIsTerminal ==
    [][\A sid \in DOMAIN submissions :
          Graded(submissions[sid]) => Graded(submissions'[sid])]_vars

\* C27: when grade_submission_manual answers with an error, the submission
\* row is as it was before the handler's commit.
C27_ManualErrorChangesNothing ==
    [][(Ended /\ last'.kind = "manual" /\ last'.http # 200)
          => submissions' = submissions]_vars

\* C28: after a grading operation has committed its grade, the persisted
\* score is a number from 0 to the assignment's max_points.
C28_ScoreWithinMaxPoints ==
    last.outcome = "graded"
        => LET score == submissions[last.sid].score
           IN  /\ score.ty = "num"
               /\ 0 <= score.n /\ score.n <= AssignmentOf(last.sid).max_points

\* C29: when generate_questions_for_assignment, or create_assignment for the
\* type short_answer, succeeds with a non-empty list of generated questions,
\* the stored rubric holds those questions and the answer_sheet marker, and
\* a background grading operation that starts on that rubric selects the
\* answer-sheet strategy; when generate_questions_for_assignment answers
\* with an error the stored rubric is unchanged.
C29_GeneratedQuestionsStored ==
    [][LET HoldsQuestions(rubric, questions) ==
               /\ ~rubric.none
               /\ {"questions", "grading_type"} \subseteq DOMAIN rubric.d
               /\ rubric.d["questions"] = questions
               /\ rubric.d["grading_type"] = AnswerSheetMarker
       IN
       \A gen \in InferenceOutcomes(QuestionReplies) :
          LET questions == QuestionsTable[gen.text]
              generated == gen.ok /\ IsList(questions) /\ Truthy(questions)
          IN  /\ \A assignment_id \in DOMAIN assignments :
                    /\ (generated /\ GenerateQuestions(assignment_id, gen, TRUE))
                          => /\ HoldsQuestions(assignments'[assignment_id].rubric, questions)
                             /\ SelectStrategy(RubricOrEmpty(
                                    assignments'[assignment_id].rubric)) = "answer_sheet"
                    /\ \A db_ok \in BOOLEAN :
                          (GenerateQuestions(assignment_id, gen, db_ok) /\ ~(gen.ok /\ db_ok))
                             => assignments' = assignments
              /\ \A rubric \in CallerRubrics :
                    (generated /\ CreateAssignment("short_answer", 40, rubric, gen))
                       => LET stored == assignments'[Len(assignments')].rubric
                          IN  /\ HoldsQuestions(stored, questions)
                              /\ SelectStrategy(RubricOrEmpty(stored)) = "answer_sheet"]_vars

\* the communication failure of _generate
CommunicationFailure == [ok |-> FALSE, text |-> <<>>]

====
